---- MODULE Spec2Model ----
(***************************************************************************)
(* Model of lucidiaAI/LUCIDIA_CORE/REASONING_ENGINE:                       *)
(*   trinary_operators.py      TrinaryLogic, LucidiaTrinaryCortex          *)
(*   contradiction_resolver.py ContradictionResolver,                      *)
(*                             LucidiaContradictionCortex                  *)
(*                                                                         *)
(* Conventions.                                                            *)
(*  - A Python dict is a sequence of <<key, value>> pairs in insertion     *)
(*    order; assigning an existing key keeps its position.                 *)
(*  - Contradiction objects live in `heap`; the active and resolved lists  *)
(*    hold references (indices into heap), as the Python lists do.         *)
(*  - An Optional result is a sequence of length 0 (None) or 1.            *)
(*  - Floats are carried exactly: entropy costs in tenths, the enhancement *)
(*    factor in hundredths, quotients as [num, den] records.               *)
(***************************************************************************)
EXTENDS Integers, Sequences, FiniteSets, TLC

VARIABLES
    belief_network,          \* LucidiaContradictionCortex.belief_network
    confidence_network,      \* LucidiaContradictionCortex.confidence_network
    active_contradictions,   \* ContradictionResolver.active_contradictions
    resolved_contradictions, \* ContradictionResolver.resolved_contradictions
    heap,                    \* the Contradiction objects created so far
    reasoning_history,       \* LucidiaTrinaryCortex.reasoning_history
    ret,                     \* what the last completed call returned
    pc,                      \* per thread: the statement it executes next
    frame,                   \* per thread: the local variables of its call
    pure                     \* a call of a stateless function: inputs, output

engineVars == <<belief_network, confidence_network, active_contradictions,
                resolved_contradictions, heap>>

threadVars == <<pc, frame>>

vars == <<belief_network, confidence_network, active_contradictions,
          resolved_contradictions, heap, reasoning_history, ret, pc, frame,
          pure>>

(***************************************************************************)
(* Bounds of the model.                                                    *)
(***************************************************************************)
\* Contradiction objects one engine creates
MaxContradictions == 3

\* Contradiction objects one engine creates under concurrent use
MaxConcContradictions == 2

\* reasoning chains one cortex logs
MaxHistory == 1

\* premises of one reason_chain call
MaxPremises == 3

\* operations of one reason_chain call
MaxOperations == 2

BeliefNames == {"A", "B"}

\* confidence arguments, in tenths (10 is the default 1.0)
Confidences == {5, 10}

(***************************************************************************)
(* TrinaryLogic                                                            *)
(***************************************************************************)
T_FALSE == -1

UNKNOWN == 0

T_TRUE == 1

Trit == {T_FALSE, UNKNOWN, T_TRUE}

Min2(a, b) == IF a <= b THEN a ELSE b

Max2(a, b) == IF a >= b THEN a ELSE b

Abs(v) == IF v < 0 THEN -v ELSE v

TAND(a, b) == Min2(a, b)

TOR(a, b) == Max2(a, b)

TNOT(a) == -a

\* mutant: an unknown antecedent yields true unless the consequent is false
TIMPLIES_UnknownLenient(a, b) ==
    IF a = T_FALSE THEN T_TRUE
    ELSE IF a = UNKNOWN THEN (IF b = T_FALSE THEN UNKNOWN ELSE T_TRUE)
    ELSE b

TIMPLIES(a, b) ==
    IF a = T_FALSE THEN T_TRUE
    ELSE IF a = UNKNOWN THEN (IF b # T_TRUE THEN UNKNOWN ELSE T_TRUE)
    ELSE b

\* 1.0 or 0.0
uncertainty_measure(value) == IF value = UNKNOWN THEN 1 ELSE 0

(***************************************************************************)
(* LucidiaTrinaryCortex                                                    *)
(***************************************************************************)
\* mutant: a tag that names no operator yields the next premise
ApplyOp_UnknownTagTakesPremise(op, current_state, next_premise) ==
    IF op = "AND" THEN TAND(current_state, next_premise)
    ELSE IF op = "OR" THEN TOR(current_state, next_premise)
    ELSE IF op = "IMPLIES" THEN TIMPLIES(current_state, next_premise)
    ELSE next_premise

ApplyOp(op, current_state, next_premise) ==
    IF op = "AND" THEN TAND(current_state, next_premise)
    ELSE IF op = "OR" THEN TOR(current_state, next_premise)
    ELSE IF op = "IMPLIES" THEN TIMPLIES(current_state, next_premise)
    ELSE current_state

\* the loop of reason_chain from operation index i (1-based) on;
\* acc = <<current_state, uncertainty_accumulation>>
RECURSIVE ChainLoop(_, _, _, _)
ChainLoop(premises, operations, i, acc) ==
    IF i > Len(operations) THEN acc
    ELSE IF i + 1 <= Len(premises)
         THEN LET s == ApplyOp(operations[i], acc[1], premises[i + 1])
              IN  ChainLoop(premises, operations, i + 1,
                            <<s, acc[2] + uncertainty_measure(s)>>)
         ELSE ChainLoop(premises, operations, i + 1, acc)

\* mutant: the uncertainty of the first premise is counted too
ChainResult_CountsFirstPremise(premises, operations) ==
    ChainLoop(premises, operations, 1,
              <<premises[1], uncertainty_measure(premises[1])>>)

\* the (result, uncertainty) pair of reason_chain; premises is non-empty
ChainResult(premises, operations) ==
    ChainLoop(premises, operations, 1, <<premises[1], 0>>)

RECURSIVE SumUncertainty(_)
SumUncertainty(history) ==
    IF history = <<>> THEN 0
    ELSE history[1].uncertainty + SumUncertainty(Tail(history))

PhiOf(history) ==
    IF history = <<>> THEN [num |-> 0, den |-> 1]
    ELSE [num |-> SumUncertainty(history), den |-> Len(history) + 1]

consciousness_phi_contribution == PhiOf(reasoning_history)

\* mutant: the two measurements are added
RatSub_Sum(a, b) == [num |-> a.num * b.den + b.num * a.den, den |-> a.den * b.den]

\* a - b on [num, den] quotients
RatSub(a, b) == [num |-> a.num * b.den - b.num * a.den, den |-> a.den * b.den]

(***************************************************************************)
(* ContradictionSeverity, Contradiction, ContradictionResolver             *)
(***************************************************************************)
SOFT == 1

MEDIUM == 2

HARD == 3

CRITICAL == 4

Severities == {SOFT, MEDIUM, HARD, CRITICAL}

Contradiction(belief_a, belief_b, value_a, value_b, severity) ==
    [belief_a |-> belief_a, belief_b |-> belief_b,
     value_a |-> value_a, value_b |-> value_b,
     severity |-> severity, timestamp |-> 0, context |-> "",
     resolution_attempts |-> 0]

\* mutant: `or` for `and` in the test for SOFT
ClassifySeverity_AnyZeroSoft(value_a, value_b) ==
    IF value_a = 0 \/ value_b = 0 THEN SOFT
    ELSE IF value_a = -value_b THEN HARD
    ELSE MEDIUM

ClassifySeverity(value_a, value_b) ==
    IF value_a = 0 \/ value_b = 0
    THEN (IF value_a = 0 /\ value_b = 0 THEN SOFT ELSE MEDIUM)
    ELSE IF value_a = -value_b THEN HARD
    ELSE MEDIUM

\* mutant: equal values are classified too
detect_contradiction_NoEqualCheck(belief_name_a, value_a, belief_name_b, value_b) ==
    <<Contradiction(belief_name_a, belief_name_b, value_a, value_b,
                    ClassifySeverity(value_a, value_b))>>

\* <<>> is None
detect_contradiction(belief_name_a, value_a, belief_name_b, value_b) ==
    IF value_a = value_b THEN <<>>
    ELSE <<Contradiction(belief_name_a, belief_name_b, value_a, value_b,
                         ClassifySeverity(value_a, value_b))>>

\* each strategy returns <<value, entropy cost in tenths>>
resolve_soft(contradiction) == <<0, 0>>

resolve_medium(contradiction) ==
    <<IF contradiction.value_a # 0 THEN contradiction.value_a
      ELSE contradiction.value_b, 3>>

\* mutant: the cost of the MEDIUM strategy
resolve_hard_MediumCost(contradiction) == <<0, 3>>

resolve_hard(contradiction) == <<0, 5>>

resolve_critical(contradiction) == <<0, 10>>

resolution_strategies(severity, contradiction) ==
    CASE severity = SOFT -> resolve_soft(contradiction)
      [] severity = MEDIUM -> resolve_medium(contradiction)
      [] severity = HARD -> resolve_hard(contradiction)
      [] severity = CRITICAL -> resolve_critical(contradiction)

RECURSIVE entropy_cost(_)
entropy_cost(contradictions) ==
    IF contradictions = <<>> THEN 0
    ELSE resolution_strategies(contradictions[1].severity, contradictions[1])[2]
         + entropy_cost(Tail(contradictions))

(***************************************************************************)
(* dict helpers                                                            *)
(***************************************************************************)
DictKeys(d) == {d[i][1] : i \in DOMAIN d}

DictGet(d, k) == d[CHOOSE i \in DOMAIN d : d[i][1] = k][2]

DictSet(d, k, v) ==
    IF k \in DictKeys(d)
    THEN [i \in DOMAIN d |-> IF d[i][1] = k THEN <<k, v>> ELSE d[i]]
    ELSE Append(d, <<k, v>>)

RECURSIVE CountZero(_)
CountZero(d) ==
    IF d = <<>> THEN 0
    ELSE (IF d[1][2] = 0 THEN 1 ELSE 0) + CountZero(Tail(d))

RECURSIVE SumAbs(_)
SumAbs(d) ==
    IF d = <<>> THEN 0 ELSE Abs(d[1][2]) + SumAbs(Tail(d))

(***************************************************************************)
(* LucidiaContradictionCortex.update_belief_network                        *)
(***************************************************************************)
\* mutant: the entry of the asserted name is not compared
RECURSIVE DetectAll_SkipSameName(_, _, _)
DetectAll_SkipSameName(network, belief_name, value) ==
    IF network = <<>> THEN <<>>
    ELSE (IF network[1][1] = belief_name THEN <<>>
          ELSE detect_contradiction(network[1][1], network[1][2],
                                    belief_name, value))
         \o DetectAll_SkipSameName(Tail(network), belief_name, value)

\* the loop over belief_network.items(): the list new_contradictions
RECURSIVE DetectAll(_, _, _)
DetectAll(network, belief_name, value) ==
    IF network = <<>> THEN <<>>
    ELSE detect_contradiction(network[1][1], network[1][2], belief_name, value)
         \o DetectAll(Tail(network), belief_name, value)

\* references to n objects allocated after those of h
NewRefs(h, n) == [i \in 1..n |-> Len(h) + i]

\* mutant: the new contradictions replace the active list
update_belief_network_Assign(belief_name, value, confidence) ==
    LET new_contradictions == DetectAll(belief_network, belief_name, value)
        n == Len(new_contradictions)
    IN  /\ Len(heap) + n <= MaxContradictions
        /\ heap' = heap \o new_contradictions
        /\ active_contradictions' = NewRefs(heap, n)
        /\ belief_network' = DictSet(belief_network, belief_name, value)
        /\ confidence_network' = DictSet(confidence_network, belief_name, confidence)
        /\ ret' = [op |-> "update_belief_network", value |-> n]
        /\ UNCHANGED <<resolved_contradictions, reasoning_history, threadVars, pure>>

update_belief_network(belief_name, value, confidence) ==
    LET new_contradictions == DetectAll(belief_network, belief_name, value)
        n == Len(new_contradictions)
    IN  /\ Len(heap) + n <= MaxContradictions
        /\ heap' = heap \o new_contradictions
        /\ active_contradictions' = active_contradictions \o NewRefs(heap, n)
        /\ belief_network' = DictSet(belief_network, belief_name, value)
        /\ confidence_network' = DictSet(confidence_network, belief_name, confidence)
        /\ ret' = [op |-> "update_belief_network", value |-> n]
        /\ UNCHANGED <<resolved_contradictions, reasoning_history, threadVars, pure>>

(***************************************************************************)
(* LucidiaContradictionCortex.resolve_active_contradictions                *)
(***************************************************************************)
SeverityOf(h, ref) == h[ref].severity

\* mutant: reverse=True left out
SortBySeverity_Ascending(h, refs) ==
    SelectSeq(refs, LAMBDA r : SeverityOf(h, r) = SOFT)
    \o SelectSeq(refs, LAMBDA r : SeverityOf(h, r) = MEDIUM)
    \o SelectSeq(refs, LAMBDA r : SeverityOf(h, r) = HARD)
    \o SelectSeq(refs, LAMBDA r : SeverityOf(h, r) = CRITICAL)

\* sorted(refs, key=severity.value, reverse=True): stable, descending
SortBySeverity(h, refs) ==
    SelectSeq(refs, LAMBDA r : SeverityOf(h, r) = CRITICAL)
    \o SelectSeq(refs, LAMBDA r : SeverityOf(h, r) = HARD)
    \o SelectSeq(refs, LAMBDA r : SeverityOf(h, r) = MEDIUM)
    \o SelectSeq(refs, LAMBDA r : SeverityOf(h, r) = SOFT)

Deref(h, refs) == [i \in DOMAIN refs |-> h[refs[i]]]

Occurrences(refs, r) == Cardinality({i \in DOMAIN refs : refs[i] = r})

\* mutant: the counter is left alone
BumpAttempts_Skipped(h, refs) == h

\* contradiction.resolution_attempts += 1 for every element of refs
BumpAttempts(h, refs) ==
    [r \in DOMAIN h |->
        [h[r] EXCEPT !.resolution_attempts = @ + Occurrences(refs, r)]]

\* mutant: the share of certain beliefs
PreservedInformation_CertainShare(uncertain_beliefs, total_beliefs) ==
    [num |-> total_beliefs - uncertain_beliefs, den |-> Max2(total_beliefs, 1)]

PreservedInformation(uncertain_beliefs, total_beliefs) ==
    [num |-> uncertain_beliefs, den |-> Max2(total_beliefs, 1)]

Report(resolved, entropy, delta, preserved) ==
    [op |-> "resolve_active_contradictions",
     contradictions_resolved |-> resolved,
     entropy_cost |-> entropy,
     consciousness_delta |-> delta,
     preserved_information |-> preserved]

\* mutant: the active list is not emptied
ResolveEffects_KeepActive ==
    LET initial_phi == consciousness_phi_contribution
        sorted_contradictions == SortBySeverity(heap, active_contradictions)
        final_phi == consciousness_phi_contribution
    IN  /\ heap' = BumpAttempts(heap, sorted_contradictions)
        /\ resolved_contradictions' = resolved_contradictions \o sorted_contradictions
        /\ active_contradictions' = active_contradictions
        /\ ret' = Report(Len(sorted_contradictions),
                         entropy_cost(Deref(heap, sorted_contradictions)),
                         RatSub(final_phi, initial_phi),
                         PreservedInformation(CountZero(belief_network),
                                              Len(belief_network)))

\* what the call does to the lists, the objects and its result
ResolveEffects ==
    LET initial_phi == consciousness_phi_contribution
        sorted_contradictions == SortBySeverity(heap, active_contradictions)
        final_phi == consciousness_phi_contribution
    IN  /\ heap' = BumpAttempts(heap, sorted_contradictions)
        /\ resolved_contradictions' = resolved_contradictions \o sorted_contradictions
        /\ active_contradictions' = <<>>
        /\ ret' = Report(Len(sorted_contradictions),
                         entropy_cost(Deref(heap, sorted_contradictions)),
                         RatSub(final_phi, initial_phi),
                         PreservedInformation(CountZero(belief_network),
                                              Len(belief_network)))

\* the network after writing each strategy's value into belief_b
RECURSIVE ApplyResolutions(_, _)
ApplyResolutions(network, contradictions) ==
    IF contradictions = <<>> THEN network
    ELSE ApplyResolutions(
             DictSet(network, contradictions[1].belief_b,
                     resolution_strategies(contradictions[1].severity,
                                           contradictions[1])[1]),
             Tail(contradictions))

\* mutant: the value each strategy returns is written to the belief network
resolve_active_contradictions_Applying ==
    /\ ResolveEffects
    /\ belief_network' =
           ApplyResolutions(belief_network,
               Deref(heap, SortBySeverity(heap, active_contradictions)))
    /\ UNCHANGED <<confidence_network, reasoning_history, threadVars, pure>>

resolve_active_contradictions ==
    /\ ResolveEffects
    /\ UNCHANGED <<belief_network, confidence_network, reasoning_history,
                   threadVars, pure>>

(***************************************************************************)
(* Scores: functions of the current state                                  *)
(***************************************************************************)
\* mutant: no clamp
Clamp01_Unclamped(q) == q

Clamp01(q) == [num |-> Max2(0, Min2(q.den, q.num)), den |-> q.den]

\* mutant: the bonus goes to the active list, the penalty to the resolved
RawCoherence_SwappedLists(network, nActive, nResolved) ==
    LET n == Len(network)
    IN  [num |-> 100 * SumAbs(network) + 5 * n * nActive - 10 * n * nResolved,
         den |-> 100 * n]

\* mean(|v|) + 0.05 * resolved - 0.1 * active, over the denominator 100 * n
RawCoherence(network, nActive, nResolved) ==
    LET n == Len(network)
    IN  [num |-> 100 * SumAbs(network) + 5 * n * nResolved - 10 * n * nActive,
         den |-> 100 * n]

system_coherence_score ==
    IF belief_network = <<>> THEN [num |-> 1, den |-> 1]
    ELSE Clamp01(RawCoherence(belief_network, Len(active_contradictions),
                              Len(resolved_contradictions)))

\* in hundredths
consciousness_enhancement_factor ==
    20 * Len(active_contradictions) + 10 * Len(resolved_contradictions)
    + 15 * CountZero(belief_network)

(***************************************************************************)
(* contradiction_substrate_routing                                         *)
(***************************************************************************)
\* severity_distribution is read by key only: a function from the keys it
\* holds to their counts; get(key, 0)
GetOrZero(severity_distribution, severity) ==
    IF severity \in DOMAIN severity_distribution
    THEN severity_distribution[severity] ELSE 0

\* mutant: the HARD rule is tested first
contradiction_substrate_routing_HardFirst(contradiction_count, severity_distribution) ==
    IF GetOrZero(severity_distribution, HARD) > 0 THEN "quantum"
    ELSE IF GetOrZero(severity_distribution, SOFT) > 3 THEN "chemical"
    ELSE "electronic"

contradiction_substrate_routing(contradiction_count, severity_distribution) ==
    IF GetOrZero(severity_distribution, SOFT) > 3 THEN "chemical"
    ELSE IF GetOrZero(severity_distribution, HARD) > 0 THEN "quantum"
    ELSE "electronic"

(***************************************************************************)
(* LucidiaTrinaryCortex.reason_chain                                       *)
(***************************************************************************)
\* the chain the engine specifications run: AND(1, 0) = 0 keeps one unit of
\* uncertainty, so every logged step raises consciousness_phi_contribution
EngineChainCalls == {<<<<1, 0>>, <<"AND">>>>}

\* mutant: with no premise the chain starts from UNKNOWN and is logged
ReasonChainEffects_EmptyStartsUnknown(premises, operations) ==
    LET r == IF premises = <<>> THEN <<UNKNOWN, 0>>
             ELSE ChainResult(premises, operations)
    IN  /\ reasoning_history' = Append(reasoning_history,
               [premises |-> premises, operations |-> operations,
                result |-> r[1], uncertainty |-> r[2]])
        /\ ret' = [op |-> "reason_chain", result |-> r[1],
                   uncertainty |-> r[2]]

\* what the call does to the log and its result; premises[0] of an empty
\* list raises IndexError before anything is written
ReasonChainEffects(premises, operations) ==
    IF premises = <<>>
    THEN /\ ret' = [op |-> "reason_chain", error |-> "IndexError"]
         /\ UNCHANGED reasoning_history
    ELSE LET r == ChainResult(premises, operations)
         IN  /\ reasoning_history' = Append(reasoning_history,
                    [premises |-> premises, operations |-> operations,
                     result |-> r[1], uncertainty |-> r[2]])
             /\ ret' = [op |-> "reason_chain", result |-> r[1],
                        uncertainty |-> r[2]]

reason_chain(premises, operations) ==
    /\ Len(reasoning_history) < MaxHistory
    /\ ReasonChainEffects(premises, operations)
    /\ UNCHANGED <<engineVars, threadVars, pure>>

(***************************************************************************)
(* Sequential use of one engine                                            *)
(***************************************************************************)
Threads == {"U", "R1", "R2"}

Resolvers == {"R1", "R2"}

NoFrame == [fn |-> "none"]

NoCall == [fn |-> "none", args |-> <<>>, out |-> <<>>]

Init ==
    /\ belief_network = <<>>
    /\ confidence_network = <<>>
    /\ active_contradictions = <<>>
    /\ resolved_contradictions = <<>>
    /\ heap = <<>>
    /\ reasoning_history = <<>>
    /\ ret = [op |-> "init"]
    /\ pc = [t \in Threads |-> "idle"]
    /\ frame = [t \in Threads |-> NoFrame]
    /\ pure = NoCall

UpdateBelief ==
    \E belief_name \in BeliefNames, value \in Trit, confidence \in Confidences :
        update_belief_network(belief_name, value, confidence)

ResolveAll == resolve_active_contradictions

ReasonChain ==
    \E call \in EngineChainCalls : reason_chain(call[1], call[2])

Next == UpdateBelief \/ ResolveAll \/ ReasonChain

Spec == Init /\ [][Next]_vars

(***************************************************************************)
(* Concurrent use of one engine without mutual exclusion: thread U runs    *)
(* update_belief_network calls, threads R1 and R2 run                      *)
(* resolve_active_contradictions calls, and the threads interleave between *)
(* statements.  A statement that touches only locals, or only state that   *)
(* no other thread of this specification writes, is taken together with    *)
(* the next statement that does not; the reads that build the report       *)
(* (lines 134-139) are one step.                                           *)
(***************************************************************************)
\* the update_belief_network calls thread U chooses from
ConcUpdates == {<<"A", 1, 10>>, <<"B", -1, 10>>, <<"B", 0, 10>>}

Goto(t, label) == pc' = [pc EXCEPT ![t] = label]

SetFrame(t, f) == frame' = [frame EXCEPT ![t] = f]

\* lines 99-107: the loop creates the Contradiction objects, extend publishes
\* them
UExtend(belief_name, value, confidence) ==
    LET new_contradictions == DetectAll(belief_network, belief_name, value)
        n == Len(new_contradictions)
    IN  /\ pc["U"] = "idle"
        /\ Len(heap) + n <= MaxConcContradictions
        /\ heap' = heap \o new_contradictions
        /\ active_contradictions' = active_contradictions \o NewRefs(heap, n)
        /\ SetFrame("U", [fn |-> "update_belief_network",
                          belief_name |-> belief_name, value |-> value,
                          confidence |-> confidence,
                          new_contradictions |-> NewRefs(heap, n)])
        /\ Goto("U", "u_set_belief")
        /\ UNCHANGED <<belief_network, confidence_network,
                       resolved_contradictions, reasoning_history, ret, pure>>

\* lines 108-110
USetBelief ==
    /\ pc["U"] = "u_set_belief"
    /\ belief_network' =
           DictSet(belief_network, frame["U"].belief_name, frame["U"].value)
    /\ confidence_network' =
           DictSet(confidence_network, frame["U"].belief_name,
                   frame["U"].confidence)
    /\ ret' = [op |-> "update_belief_network",
               value |-> Len(frame["U"].new_contradictions)]
    /\ SetFrame("U", NoFrame)
    /\ Goto("U", "idle")
    /\ UNCHANGED <<active_contradictions, resolved_contradictions, heap,
                   reasoning_history, pure>>

\* lines 114-126: the snapshot of the active list, and the loop's first test
RSort(t) ==
    LET sorted_contradictions == SortBySeverity(heap, active_contradictions)
    IN  /\ pc[t] = "idle"
        /\ SetFrame(t, [fn |-> "resolve_active_contradictions",
                        initial_phi |-> consciousness_phi_contribution,
                        sorted_contradictions |-> sorted_contradictions,
                        i |-> 1,
                        entropy_cost |-> 0, contradictions_resolved |-> 0])
        /\ Goto(t, IF sorted_contradictions = <<>> THEN "r_clear"
                   ELSE "r_attempts")
        /\ UNCHANGED <<engineVars, reasoning_history, ret, pure>>

\* lines 127-131
RAttempts(t) ==
    LET ref == frame[t].sorted_contradictions[frame[t].i]
        contradiction == heap[ref]
    IN  /\ pc[t] = "r_attempts"
        /\ SetFrame(t, [frame[t] EXCEPT
               !.entropy_cost =
                   @ + resolution_strategies(contradiction.severity,
                                             contradiction)[2],
               !.contradictions_resolved = @ + 1])
        /\ heap' = [heap EXCEPT ![ref].resolution_attempts = @ + 1]
        /\ Goto(t, "r_append")
        /\ UNCHANGED <<belief_network, confidence_network, active_contradictions,
                       resolved_contradictions, reasoning_history, ret, pure>>

\* line 132, and the loop's next test
RAppend(t) ==
    /\ pc[t] = "r_append"
    /\ resolved_contradictions' =
           Append(resolved_contradictions,
                  frame[t].sorted_contradictions[frame[t].i])
    /\ SetFrame(t, [frame[t] EXCEPT !.i = @ + 1])
    /\ Goto(t, IF frame[t].i + 1 > Len(frame[t].sorted_contradictions)
               THEN "r_clear" ELSE "r_attempts")
    /\ UNCHANGED <<belief_network, confidence_network, active_contradictions,
                   heap, reasoning_history, ret, pure>>

\* mutant: only the contradictions of the snapshot leave the active list
RClear_RemoveSnapshot(t) ==
    /\ pc[t] = "r_clear"
    /\ active_contradictions' =
           SelectSeq(active_contradictions,
                     LAMBDA r : Occurrences(frame[t].sorted_contradictions, r) = 0)
    /\ Goto(t, "r_return")
    /\ UNCHANGED <<belief_network, confidence_network, resolved_contradictions,
                   heap, reasoning_history, ret, frame, pure>>

\* line 133
RClear(t) ==
    /\ pc[t] = "r_clear"
    /\ active_contradictions' = <<>>
    /\ Goto(t, "r_return")
    /\ UNCHANGED <<belief_network, confidence_network, resolved_contradictions,
                   heap, reasoning_history, ret, frame, pure>>

\* lines 134-139
RReturn(t) ==
    /\ pc[t] = "r_return"
    /\ ret' = Report(frame[t].contradictions_resolved, frame[t].entropy_cost,
                     RatSub(consciousness_phi_contribution, frame[t].initial_phi),
                     PreservedInformation(CountZero(belief_network),
                                          Len(belief_network)))
    /\ SetFrame(t, NoFrame)
    /\ Goto(t, "idle")
    /\ UNCHANGED <<engineVars, reasoning_history, pure>>

UpdaterStep ==
    \/ \E call \in ConcUpdates : UExtend(call[1], call[2], call[3])
    \/ USetBelief

ResolverStep ==
    \E t \in Resolvers :
        \/ RSort(t)
        \/ RAttempts(t)
        \/ RAppend(t)
        \/ RClear(t)
        \/ RReturn(t)

NextConc == UpdaterStep \/ ResolverStep

SpecConc == Init /\ [][NextConc]_vars

(***************************************************************************)
(* The stateless functions, each applied to inputs drawn by the initial    *)
(* state: pure.out is <<>> before the call and <<result>> after it.        *)
(***************************************************************************)
CallOf(fn, args) == [fn |-> fn, args |-> args, out |-> <<>>]

\* contradiction_count arguments
ContradictionCounts == {0, 7}

\* counts a severity_distribution holds, on both sides of each threshold
DistributionCounts == {0, 1, 3, 4}

\* severity_distribution arguments: any set of keys, any of the counts
SeverityDistributions ==
    UNION {[keys -> DistributionCounts] : keys \in SUBSET Severities}

InitPure ==
    /\ belief_network = <<>>
    /\ confidence_network = <<>>
    /\ active_contradictions = <<>>
    /\ resolved_contradictions = <<>>
    /\ heap = <<>>
    /\ reasoning_history = <<>>
    /\ ret = [op |-> "init"]
    /\ pc = [t \in Threads |-> "idle"]
    /\ frame = [t \in Threads |-> NoFrame]
    /\ \/ \E a, b \in Trit : pure = CallOf("TAND", <<a, b>>)
       \/ \E a, b \in Trit : pure = CallOf("TOR", <<a, b>>)
       \/ \E a \in Trit : pure = CallOf("TNOT", <<a>>)
       \/ \E a, b \in Trit : pure = CallOf("TIMPLIES", <<a, b>>)
       \/ \E a \in Trit : pure = CallOf("uncertainty_measure", <<a>>)
       \/ \E na, nb \in BeliefNames, a, b \in Trit :
              pure = CallOf("detect_contradiction", <<na, a, nb, b>>)
       \/ \E count \in ContradictionCounts, dist \in SeverityDistributions :
              pure = CallOf("contradiction_substrate_routing", <<count, dist>>)

Pending(fn) == pure.fn = fn /\ pure.out = <<>>

Return(value) ==
    /\ pure' = [pure EXCEPT !.out = <<value>>]
    /\ UNCHANGED <<engineVars, reasoning_history, ret, threadVars>>

CallTAND == Pending("TAND") /\ Return(TAND(pure.args[1], pure.args[2]))

CallTOR == Pending("TOR") /\ Return(TOR(pure.args[1], pure.args[2]))

CallTNOT == Pending("TNOT") /\ Return(TNOT(pure.args[1]))

CallTIMPLIES ==
    Pending("TIMPLIES") /\ Return(TIMPLIES(pure.args[1], pure.args[2]))

CallUncertaintyMeasure ==
    Pending("uncertainty_measure") /\ Return(uncertainty_measure(pure.args[1]))

CallDetectContradiction ==
    /\ Pending("detect_contradiction")
    /\ Return(detect_contradiction(pure.args[1], pure.args[2],
                                   pure.args[3], pure.args[4]))

CallSubstrateRouting ==
    /\ Pending("contradiction_substrate_routing")
    /\ Return(contradiction_substrate_routing(pure.args[1], pure.args[2]))

NextPure ==
    \/ CallTAND
    \/ CallTOR
    \/ CallTNOT
    \/ CallTIMPLIES
    \/ CallUncertaintyMeasure
    \/ CallDetectContradiction
    \/ CallSubstrateRouting

SpecPure == InitPure /\ [][NextPure]_vars

(***************************************************************************)
(* One reason_chain call on inputs drawn by the initial state, made by a   *)
(* cortex that may have logged chains before it: pure.args holds           *)
(* <<premises, operations>>, pure.out is <<>> before the call and          *)
(* <<outcome>> after it.                                                   *)
(***************************************************************************)
SeqsUpTo(S, n) == UNION {[1..m -> S] : m \in 0..n}

\* operation tags: the three reason_chain knows, and one it does not
OperationTags == {"AND", "OR", "IMPLIES", "NOT"}

ChainPremises == SeqsUpTo(Trit, MaxPremises)

ChainOperations == SeqsUpTo(OperationTags, MaxOperations)

InitChain ==
    /\ belief_network = <<>>
    /\ confidence_network = <<>>
    /\ active_contradictions = <<>>
    /\ resolved_contradictions = <<>>
    /\ heap = <<>>
    /\ reasoning_history = <<>>
    /\ ret = [op |-> "init"]
    /\ pc = [t \in Threads |-> "idle"]
    /\ frame = [t \in Threads |-> NoFrame]
    /\ \E premises \in ChainPremises, operations \in ChainOperations :
           pure = CallOf("reason_chain", <<premises, operations>>)

CallReasonChain ==
    /\ Pending("reason_chain")
    /\ ReasonChainEffects(pure.args[1], pure.args[2])
    /\ pure' = [pure EXCEPT !.out = <<ret'>>]
    /\ UNCHANGED <<engineVars, threadVars>>

NextChain == ReasonChain \/ CallReasonChain

SpecChain == InitChain /\ [][NextChain]_vars

(***************************************************************************)
(* One resolve_active_contradictions call at a time, interleaved between   *)
(* its statements with update_belief_network calls and with reason_chain   *)
(* calls of another thread on the same cortex.  Of a reason_chain call     *)
(* only the append to reasoning_history is visible to the other threads.   *)
(***************************************************************************)
InterleavedResolverStep ==
    \/ RSort("R1")
    \/ RAttempts("R1")
    \/ RAppend("R1")
    \/ RClear("R1")
    \/ RReturn("R1")

NextInterleaved == UpdaterStep \/ InterleavedResolverStep \/ ReasonChain

SpecInterleaved == Init /\ [][NextInterleaved]_vars

(***************************************************************************)
(* Properties of sequential use (Spec)                                     *)
(***************************************************************************)
Range(seq) == {seq[i] : i \in DOMAIN seq}

\* the step just taken completed a resolve_active_contradictions call
IsResolve == ret'.op = "resolve_active_contradictions"

\* the step just taken completed an update_belief_network call
IsUpdate == ret'.op = "update_belief_network"

Resolved == ret.op = "resolve_active_contradictions"

Updated == ret.op = "update_belief_network"

\* the entries the last resolve call appended to the resolved list
LastBlock ==
    SubSeq(resolved_contradictions,
           Len(resolved_contradictions) - ret.contradictions_resolved + 1,
           Len(resolved_contradictions))

\* C1: every resolve_active_contradictions call leaves the active list empty,
\* appends to the resolved list exactly as many entries as were active when it
\* started, and reports that number as contradictions_resolved.
C1_ResolveMovesAll ==
    [][IsResolve =>
        /\ active_contradictions' = <<>>
        /\ Len(resolved_contradictions') =
               Len(resolved_contradictions) + Len(active_contradictions)
        /\ SubSeq(resolved_contradictions', 1, Len(resolved_contradictions)) =
               resolved_contradictions
        /\ ret'.contradictions_resolved = Len(active_contradictions)]_vars

\* a second resolve call that moved two contradictions
C1_Witness ==
    /\ Resolved
    /\ ret.contradictions_resolved >= 2
    /\ Len(resolved_contradictions) > ret.contradictions_resolved
    /\ active_contradictions = <<>>

\* C2 (as claimed): every contradiction in the active or the resolved list
\* references two distinct belief names.
C2_DistinctNames ==
    \A r \in Range(active_contradictions) \cup Range(resolved_contradictions) :
        heap[r].belief_a # heap[r].belief_b

PositionIn(seq, x) == CHOOSE i \in DOMAIN seq : seq[i] = x

\* block is src sorted by severity, highest first, equal severities in the
\* order they have in src
IsStableDescendingSortOf(block, src, h) ==
    /\ Len(block) = Len(src)
    /\ Range(block) = Range(src)
    /\ \A i, j \in DOMAIN block :
          i < j =>
            \/ h[block[i]].severity > h[block[j]].severity
            \/ /\ h[block[i]].severity = h[block[j]].severity
               /\ PositionIn(src, block[i]) < PositionIn(src, block[j])

\* C4: the block each resolve call appends to the resolved list is the prior
\* active list ordered by severity descending, contradictions of equal
\* severity keeping their relative insertion order.
C4_StableDescendingOrder ==
    [][IsResolve =>
        IsStableDescendingSortOf(
            SubSeq(resolved_contradictions', Len(resolved_contradictions) + 1,
                   Len(resolved_contradictions')),
            active_contradictions, heap)]_vars

\* a resolve call moved a HARD contradiction ahead of an earlier MEDIUM one
\* and kept two MEDIUM ones in insertion order
C4_Witness ==
    /\ Resolved
    /\ ret.contradictions_resolved >= 3
    /\ LastBlock[1] > LastBlock[2]
    /\ heap[LastBlock[1]].severity = HARD
    /\ heap[LastBlock[2]].severity = MEDIUM
    /\ heap[LastBlock[3]].severity = MEDIUM
    /\ LastBlock[2] < LastBlock[3]

\* 100 * n * (mean(|v|) + 0.05 * resolved - 0.1 * active) for trinary values
CoherenceNumerator ==
    LET n == Len(belief_network)
        certain == Cardinality({i \in DOMAIN belief_network :
                                    belief_network[i][2] # 0})
    IN  100 * certain + 5 * n * Len(resolved_contradictions)
        - 10 * n * Len(active_contradictions)

\* C5: the coherence score lies in [0, 1]; it is 1 for the empty network and
\* otherwise mean(|value|) + 0.05 * |resolved| - 0.1 * |active| clamped to
\* [0, 1].
C5_CoherenceClamped ==
    LET s == system_coherence_score
        n == Len(belief_network)
    IN  /\ s.den > 0
        /\ 0 <= s.num
        /\ s.num <= s.den
        /\ n = 0 => s.num = s.den
        /\ n > 0 => s.num * 100 * n =
                        s.den * Max2(0, Min2(100 * n, CoherenceNumerator))

\* a non-empty network whose unclamped score is negative
C5_Witness ==
    /\ belief_network # <<>>
    /\ CoherenceNumerator < 0
    /\ system_coherence_score.num = 0

Total == Len(active_contradictions) + Len(resolved_contradictions)

\* every Contradiction object created is referenced exactly once
ExactlyOnce ==
    \A r \in DOMAIN heap :
        Occurrences(active_contradictions, r)
        + Occurrences(resolved_contradictions, r) = 1

\* C6: every contradiction created is in exactly one of the two lists, and
\* |active| + |resolved| grows by the value each update_belief_network call
\* returns and changes at no other step, so it never decreases.
C6_NeverDeleted ==
    [][/\ ExactlyOnce'
       /\ IsUpdate => Total' = Total + ret'.value
       /\ ~IsUpdate => Total' = Total
       /\ Total' >= Total]_vars

\* an update found a conflict while earlier ones were already resolved and
\* others still active
C6_Witness ==
    /\ Updated
    /\ ret.value >= 1
    /\ Len(resolved_contradictions) >= 1
    /\ Len(active_contradictions) >= 2

\* C7: a resolve call leaves the belief network and the confidence network
\* as they were.
C7_ResolveKeepsNetworks ==
    [][IsResolve =>
        /\ belief_network' = belief_network
        /\ confidence_network' = confidence_network]_vars

\* a resolve call processed a contradiction whose strategy returned a value
\* other than the current value of its second belief
C7_Witness ==
    /\ Resolved
    /\ ret.contradictions_resolved >= 1
    /\ LET c == heap[LastBlock[1]]
       IN  /\ c.belief_b \in DictKeys(belief_network)
           /\ resolution_strategies(c.severity, c)[1]
                  # DictGet(belief_network, c.belief_b)

CountSeverity(refs, severity) ==
    Cardinality({i \in DOMAIN refs : heap[refs[i]].severity = severity})

\* the state after asserting A = 1 and then B = -1
ScenarioAB ==
    /\ belief_network = <<<<"A", 1>>, <<"B", -1>>>>
    /\ Len(heap) = 1

\* C8: the entropy cost a resolve call reports is the sum of the costs of the
\* contradictions active when it started (SOFT 0.0, MEDIUM 0.3, HARD 0.5,
\* CRITICAL 1.0, in tenths); after A = 1 and B = -1 there is one HARD conflict
\* and the call reports 1 resolved at cost 0.5.
C8_EntropyIsSumOfCosts ==
    [][IsResolve =>
        /\ ret'.entropy_cost =
               0 * CountSeverity(active_contradictions, SOFT)
               + 3 * CountSeverity(active_contradictions, MEDIUM)
               + 5 * CountSeverity(active_contradictions, HARD)
               + 10 * CountSeverity(active_contradictions, CRITICAL)
        /\ (ScenarioAB /\ active_contradictions = <<1>>) =>
               /\ heap[1].severity = HARD
               /\ ret'.contradictions_resolved = 1
               /\ ret'.entropy_cost = 5]_vars

\* the resolve call of the scenario has returned
C8_Witness ==
    /\ Resolved
    /\ ScenarioAB
    /\ resolved_contradictions = <<1>>
    /\ ret.contradictions_resolved = 1
    /\ ret.entropy_cost = 5

\* the entries of network whose value is not value, in network order
Differing(network, value) == SelectSeq(network, LAMBDA e : e[2] # value)

\* d2 is d1 with key k set to v and nothing else changed
IsDictWith(d2, d1, k, v) ==
    /\ DictKeys(d2) = DictKeys(d1) \cup {k}
    /\ Len(d2) = Cardinality(DictKeys(d2))
    /\ DictGet(d2, k) = v
    /\ \A other \in DictKeys(d1) \ {k} : DictGet(d2, other) = DictGet(d1, other)

\* C14: update_belief_network(name, value, confidence) compares the new value
\* with the network as it was before the call: it returns the number of
\* prior entries whose value differs and appends to the end of the active
\* list, in network order, one new contradiction for each of them (none for
\* an entry of equal value); afterwards network[name] = value and
\* confidence[name] = confidence and no other entry has changed.
C14_UpdateDetectsThenOverwrites ==
    [][\A belief_name \in BeliefNames, value \in Trit, confidence \in Confidences :
          update_belief_network(belief_name, value, confidence) =>
            LET differing == Differing(belief_network, value)
                n == Len(differing)
                old == Len(active_contradictions)
            IN  /\ ret'.value = n
                /\ Len(active_contradictions') = old + n
                /\ SubSeq(active_contradictions', 1, old) = active_contradictions
                /\ Len(heap') = Len(heap) + n
                /\ SubSeq(heap', 1, Len(heap)) = heap
                /\ \A j \in 1..n :
                      /\ active_contradictions'[old + j] = Len(heap) + j
                      /\ LET c == heap'[active_contradictions'[old + j]]
                         IN  /\ c.belief_a = differing[j][1]
                             /\ c.value_a = differing[j][2]
                             /\ c.belief_b = belief_name
                             /\ c.value_b = value
                /\ IsDictWith(belief_network', belief_network, belief_name, value)
                /\ IsDictWith(confidence_network', confidence_network,
                              belief_name, confidence)]_vars

\* B was re-asserted with the value A holds: no contradiction against A, one
\* against the prior value of B
C14_Witness ==
    /\ Updated
    /\ ret.value = 1
    /\ belief_network = <<<<"A", 1>>, <<"B", 1>>>>
    /\ active_contradictions # <<>>
    /\ LET c == heap[active_contradictions[Len(active_contradictions)]]
       IN  /\ c.belief_a = "B"
           /\ c.value_a = -1
           /\ c.belief_b = "B"
           /\ c.value_b = 1

\* C15: every contradiction in the active list has resolution_attempts = 0
\* and every contradiction in the resolved list has resolution_attempts = 1;
\* a resolve call changes no other field of the contradictions it moves.
C15_AttemptsTrackProcessing ==
    [][/\ \A r \in Range(active_contradictions') :
             heap'[r].resolution_attempts = 0
       /\ \A r \in Range(resolved_contradictions') :
             heap'[r].resolution_attempts = 1
       /\ IsResolve =>
             \A r \in Range(active_contradictions) :
                 /\ heap[r].resolution_attempts = 0
                 /\ heap'[r] = [heap[r] EXCEPT !.resolution_attempts = 1]]_vars

\* contradictions processed once beside contradictions not yet processed
C15_Witness ==
    /\ \E r \in Range(resolved_contradictions) : heap[r].resolution_attempts = 1
    /\ \E r \in Range(active_contradictions) : heap[r].resolution_attempts = 0
    /\ Len(resolved_contradictions) >= 2

\* C17: the preserved_information a resolve call reports is the number of
\* beliefs valued 0 divided by the number of beliefs, 0 for the empty
\* network, and lies in [0, 1].
C17_PreservedIsUnknownShare ==
    Resolved =>
        LET p == ret.preserved_information
            total == Len(belief_network)
            zeros == Cardinality({i \in DOMAIN belief_network :
                                      belief_network[i][2] = 0})
        IN  /\ p.den > 0
            /\ 0 <= p.num
            /\ p.num <= p.den
            /\ total = 0 => p.num = 0
            /\ total > 0 => p.num * total = zeros * p.den

\* a call reported one half: one of two beliefs is unknown
C17_Witness ==
    /\ Resolved
    /\ Len(belief_network) = 2
    /\ CountZero(belief_network) = 1
    /\ ret.preserved_information.num * 2 = ret.preserved_information.den
    /\ ret.contradictions_resolved >= 1

\* C18: with values in {-1, 0, 1} every contradiction in the active or the
\* resolved list is MEDIUM with exactly one value 0, or HARD with opposite
\* non-zero values; none is SOFT or CRITICAL.  So the entropy cost a resolve
\* call reports is 0.3 * (number of MEDIUM) + 0.5 * (number of HARD).
C18_OnlyMediumAndHard ==
    [][/\ \A r \in Range(active_contradictions')
                     \cup Range(resolved_contradictions') :
             LET c == heap'[r]
             IN  \/ /\ c.severity = MEDIUM
                    /\ (c.value_a = 0) # (c.value_b = 0)
                 \/ /\ c.severity = HARD
                    /\ c.value_a # 0
                    /\ c.value_a = -c.value_b
       /\ IsResolve =>
             ret'.entropy_cost =
                 3 * CountSeverity(active_contradictions, MEDIUM)
                 + 5 * CountSeverity(active_contradictions, HARD)]_vars

\* a call resolved two MEDIUM and one HARD contradiction at cost 1.1
C18_Witness ==
    /\ Resolved
    /\ ret.contradictions_resolved = 3
    /\ ret.entropy_cost = 11
    /\ heap[LastBlock[1]].severity = HARD
    /\ heap[LastBlock[3]].severity = MEDIUM

RatLeq(a, b) == a.num * b.den <= b.num * a.den

\* the coherence score before the last resolve call, which left the belief
\* network alone and moved ret.contradictions_resolved contradictions
CoherenceBeforeResolve ==
    IF belief_network = <<>> THEN [num |-> 1, den |-> 1]
    ELSE Clamp01(RawCoherence(belief_network, ret.contradictions_resolved,
                              Len(resolved_contradictions)
                              - ret.contradictions_resolved))

\* C19: the coherence score right after a resolve call is at least the
\* score right before it.
C19_ResolveNeverLowersCoherence ==
    [][IsResolve =>
          RatLeq(system_coherence_score, system_coherence_score')]_vars

\* a call raised a score that lay strictly between 0 and 1
C19_Witness ==
    /\ Resolved
    /\ ret.contradictions_resolved >= 1
    /\ CoherenceBeforeResolve.num > 0
    /\ ~RatLeq(system_coherence_score, CoherenceBeforeResolve)
    /\ system_coherence_score.num < system_coherence_score.den

(***************************************************************************)
(* Properties of the stateless functions (SpecPure)                        *)
(***************************************************************************)
Returned(fn) == pure.fn = fn /\ pure.out # <<>>

\* C3 (as claimed): detect assigns SOFT to (0, 0), MEDIUM to a pair with
\* exactly one 0 and HARD to (1, -1) and (-1, 1).
C3_SeverityAsClaimed ==
    Returned("detect_contradiction") =>
        LET a == pure.args[2]
            b == pure.args[4]
            r == pure.out[1]
        IN  /\ (a = 0 /\ b = 0) => (r # <<>> /\ r[1].severity = SOFT)
            /\ ((a = 0) # (b = 0)) => (r # <<>> /\ r[1].severity = MEDIUM)
            /\ (a # 0 /\ a = -b) => (r # <<>> /\ r[1].severity = HARD)

\* C3 (amended): detect reports no contradiction for equal values, (0, 0)
\* included, and so never assigns SOFT; a pair with exactly one 0 gets
\* MEDIUM and (1, -1) and (-1, 1) get HARD.
C3_SeverityByValues ==
    Returned("detect_contradiction") =>
        LET a == pure.args[2]
            b == pure.args[4]
            r == pure.out[1]
        IN  /\ (a = b) => r = <<>>
            /\ (a # b) =>
                  /\ Len(r) = 1
                  /\ r[1].severity # SOFT
            /\ ((a = 0) # (b = 0)) => r[1].severity = MEDIUM
            /\ (a # 0 /\ a = -b) => r[1].severity = HARD

\* detect has returned for the pair (0, 0)
C3_Witness ==
    /\ Returned("detect_contradiction")
    /\ pure.args[2] = 0
    /\ pure.args[4] = 0
    /\ pure.out[1] = <<>>

\* C10: IMPLIES(-1, b) = 1, IMPLIES(1, b) = b, IMPLIES(0, 1) = 1,
\* IMPLIES(0, -1) = 0, IMPLIES(0, 0) = 0, and the result is a trinary value.
C10_ImpliesTable ==
    Returned("TIMPLIES") =>
        LET a == pure.args[1]
            b == pure.args[2]
            r == pure.out[1]
        IN  /\ r \in {-1, 0, 1}
            /\ a = -1 => r = 1
            /\ a = 1 => r = b
            /\ (a = 0 /\ b = 1) => r = 1
            /\ (a = 0 /\ b = -1) => r = 0
            /\ (a = 0 /\ b = 0) => r = 0

\* IMPLIES has returned for an unknown antecedent and an unknown consequent
C10_Witness ==
    /\ Returned("TIMPLIES")
    /\ pure.args = <<0, 0>>
    /\ pure.out = <<0>>

\* the count a distribution gives a severity, 0 for a key it lacks
CountOf(severity_distribution, severity) ==
    IF severity \in DOMAIN severity_distribution
    THEN severity_distribution[severity] ELSE 0

\* C13: contradiction_substrate_routing returns "chemical" whenever the SOFT
\* count exceeds 3, also when the HARD count is positive; otherwise "quantum"
\* whenever the HARD count is positive; otherwise "electronic".  A severity
\* the distribution lacks counts as 0, and the result does not depend on
\* contradiction_count.
C13_RoutingPriority ==
    Returned("contradiction_substrate_routing") =>
        LET soft == CountOf(pure.args[2], SOFT)
            hard == CountOf(pure.args[2], HARD)
            r == pure.out[1]
        IN  /\ soft > 3 => r = "chemical"
            /\ (soft <= 3 /\ hard > 0) => r = "quantum"
            /\ (soft <= 3 /\ hard <= 0) => r = "electronic"

\* both rules match and the SOFT rule wins
C13_Witness ==
    /\ Returned("contradiction_substrate_routing")
    /\ CountOf(pure.args[2], SOFT) = 4
    /\ CountOf(pure.args[2], HARD) = 1
    /\ pure.out = <<"chemical">>

(***************************************************************************)
(* Properties of concurrent use (SpecConc)                                 *)
(***************************************************************************)
Quiescent == \A t \in Threads : pc[t] = "idle"

\* published to the engine and now in neither list
Lost(r) ==
    /\ Occurrences(active_contradictions, r) = 0
    /\ Occurrences(resolved_contradictions, r) = 0

\* C9: without mutual exclusion a resolve call discards, when it clears the
\* active list, every contradiction that is in the list then, those appended
\* after its snapshot included, and it appends each contradiction of its
\* snapshot to the resolved list even when another call has appended it
\* already: contradictions can be lost and can be processed twice.
C9_ClearDiscardsAndAppendRepeats ==
    [][\A t \in Resolvers :
          /\ (pc[t] = "r_clear" /\ pc'[t] = "r_return") =>
                \A r \in Range(active_contradictions) :
                    Occurrences(resolved_contradictions, r) = 0 => Lost(r)'
          /\ (pc[t] = "r_append" /\ pc'[t] # "r_append") =>
                LET r == frame[t].sorted_contradictions[frame[t].i]
                IN  Occurrences(resolved_contradictions', r) =
                        Occurrences(resolved_contradictions, r) + 1]_vars

\* all calls have returned: one contradiction is in neither list, another is
\* twice in the resolved list
C9_Witness ==
    /\ Quiescent
    /\ \E r \in DOMAIN heap : Lost(r)
    /\ \E r \in DOMAIN heap : Occurrences(resolved_contradictions, r) >= 2

(***************************************************************************)
(* Properties of one reason_chain call (SpecChain)                         *)
(***************************************************************************)
KnownTags == {"AND", "OR", "IMPLIES"}

\* the operations that find a next premise
StepsTaken(premises, operations) ==
    Min2(Len(operations), Len(premises) - 1)

\* the running result after the first j operations: operation j combines the
\* result so far with premise j + 1; a tag that names no operator keeps it
RECURSIVE FoldLeft(_, _, _)
FoldLeft(premises, operations, j) ==
    IF j = 0 THEN premises[1]
    ELSE LET sofar == FoldLeft(premises, operations, j - 1)
         IN  CASE operations[j] = "AND" -> TAND(sofar, premises[j + 1])
               [] operations[j] = "OR" -> TOR(sofar, premises[j + 1])
               [] operations[j] = "IMPLIES" -> TIMPLIES(sofar, premises[j + 1])
               [] OTHER -> sofar

\* of the first k steps, those whose new running result is UNKNOWN
UnknownSteps(premises, operations, k) ==
    Cardinality({j \in 1..k : FoldLeft(premises, operations, j) = UNKNOWN})

\* C11: for a non-empty premise list and AND/OR/IMPLIES tags, reason_chain
\* returns the left fold of the first k = min(len(operations),
\* len(premises) - 1) operations over the premises, and as uncertainty the
\* number of those k steps whose new running result is 0; operations past k
\* are skipped without error; with no operations it returns the first premise
\* and uncertainty 0.
C11_ChainIsLeftFold ==
    (/\ Returned("reason_chain")
     /\ pure.args[1] # <<>>
     /\ Range(pure.args[2]) \subseteq KnownTags) =>
        LET premises == pure.args[1]
            operations == pure.args[2]
            k == StepsTaken(premises, operations)
            out == pure.out[1]
        IN  /\ "error" \notin DOMAIN out
            /\ out.result = FoldLeft(premises, operations, k)
            /\ out.uncertainty = UnknownSteps(premises, operations, k)
            /\ operations = <<>> =>
                  (out.result = premises[1] /\ out.uncertainty = 0)

\* a chain with more operations than next premises has returned: AND(1, 0)
\* is applied, OR finds no premise
C11_Witness ==
    /\ Returned("reason_chain")
    /\ pure.args = <<<<1, 0>>, <<"AND", "OR">>>>
    /\ pure.out[1].result = 0
    /\ pure.out[1].uncertainty = 1

\* the ReasoningStep a call logs
ReasoningStep(premises, operations, out) ==
    [premises |-> premises, operations |-> operations,
     result |-> out.result, uncertainty |-> out.uncertainty]

\* the step just taken is the reason_chain call on pure.args
ChainCalled == Pending("reason_chain") /\ pure'.out # <<>>

\* C16: reason_chain called with no premise ends in an error and appends
\* no ReasoningStep: reasoning_history, and so the value of
\* consciousness_phi_contribution, is the same before and after the call.
C16_EmptyPremisesFail ==
    [][(ChainCalled /\ pure.args[1] = <<>>) =>
          /\ "error" \in DOMAIN pure'.out[1]
          /\ reasoning_history' = reasoning_history
          /\ PhiOf(reasoning_history') = PhiOf(reasoning_history)]_vars

\* the failed call was made by a cortex with a non-zero phi contribution
C16_Witness ==
    /\ Returned("reason_chain")
    /\ pure.args[1] = <<>>
    /\ pure.args[2] # <<>>
    /\ "error" \in DOMAIN pure.out[1]
    /\ PhiOf(reasoning_history).num > 0

\* C20: an operation tag other than AND, OR, IMPLIES that finds a next
\* premise keeps the running result, uses up that premise position and adds
\* the uncertainty of the kept result; the call returns normally and appends
\* one ReasoningStep.
C20_UnknownTagKeepsResult ==
    [][(ChainCalled /\ pure.args[1] # <<>>) =>
          LET premises == pure.args[1]
              operations == pure.args[2]
              k == StepsTaken(premises, operations)
              out == pure'.out[1]
          IN  (\E j \in 1..k : operations[j] \notin KnownTags) =>
                 /\ "error" \notin DOMAIN out
                 /\ out.result = FoldLeft(premises, operations, k)
                 /\ out.uncertainty = UnknownSteps(premises, operations, k)
                 /\ reasoning_history' =
                        Append(reasoning_history,
                               ReasoningStep(premises, operations, out))]_vars

\* NOT keeps the unknown result 0 and counts it, and AND then takes the
\* third premise: AND(0, 1) = 0
C20_Witness ==
    /\ Returned("reason_chain")
    /\ pure.args = <<<<0, 1, 1>>, <<"NOT", "AND">>>>
    /\ pure.out[1].result = 0
    /\ pure.out[1].uncertainty = 2
    /\ reasoning_history # <<>>
    /\ reasoning_history[Len(reasoning_history)].operations = <<"NOT", "AND">>

(***************************************************************************)
(* Properties of a resolve call interleaved with reason_chain calls        *)
(* (SpecInterleaved)                                                       *)
(***************************************************************************)
RatEq(a, b) == a.num * b.den = b.num * a.den

\* sum of the logged step uncertainties / (number of steps + 1), 0 for an
\* empty log; the sum counts the units of uncertainty of every logged step,
\* at most one per operation
PhiContribution ==
    IF Len(reasoning_history) = 0 THEN [num |-> 0, den |-> 1]
    ELSE [num |-> Cardinality({step \in (DOMAIN reasoning_history)
                                          \X (1..MaxOperations) :
                                  step[2] <= reasoning_history[step[1]].uncertainty}),
          den |-> Len(reasoning_history) + 1]

\* steps of the resolve call of thread R1
ResolveBegins == pc["R1"] = "idle" /\ pc'["R1"] # "idle"

ResolveReturns == pc["R1"] = "r_return" /\ pc'["R1"] = "idle"

ResolveSteps == pc'["R1"] # pc["R1"]

\* C12: a resolve call measures the phi contribution (sum of step
\* uncertainties / (steps + 1), 0 with no steps) when it begins and when it
\* returns and reports the difference; no step of the call changes
\* reasoning_history, only a reason_chain call does.  So the reported
\* consciousness_delta is zero unless a reason_chain call runs between the
\* two measurements.
C12_DeltaZeroUnlessChainInterleaved ==
    [][/\ ResolveBegins =>
            RatEq(frame'["R1"].initial_phi, PhiContribution)
       /\ ResolveSteps => reasoning_history' = reasoning_history
       /\ reasoning_history' # reasoning_history =>
            (ret'.op = "reason_chain" /\ pc' = pc)
       /\ ResolveReturns =>
            /\ (reasoning_history = <<>>) => ret'.consciousness_delta.num = 0
            /\ RatEq(frame["R1"].initial_phi, PhiContribution) <=>
                   ret'.consciousness_delta.num = 0
            /\ RatEq(ret'.consciousness_delta,
                     [num |-> PhiContribution.num * frame["R1"].initial_phi.den
                                - frame["R1"].initial_phi.num * PhiContribution.den,
                      den |-> PhiContribution.den * frame["R1"].initial_phi.den])]_vars

\* a call that moved a contradiction reported a zero delta on a cortex whose
\* phi contribution is not zero
C12_Witness ==
    /\ Resolved
    /\ pc["R1"] = "idle"
    /\ ret.contradictions_resolved >= 1
    /\ ret.consciousness_delta.num = 0
    /\ PhiOf(reasoning_history).num > 0

====
